---- MODULE Spec2Model ----
(***************************************************************************)
(* Model of src/FFMpeg.cpp: main() (setup, Presentation Loop, teardown)    *)
(* running concurrently with GetVideoFrameThread (the Decode Worker) over  *)
(* the shared VideoContext (buffer, bufferSize, decoded, read, filled,     *)
(* ended) and the global window.                                           *)
(*                                                                         *)
(* The shared fields are plain (non-atomic) fields.  Every loop that reads *)
(* them also calls an opaque library function (Sleep, window.isOpen,       *)
(* clock.getElapsedTime), so each read is a real load; the model           *)
(* interleaves the two threads at the level of single shared accesses.     *)
(***************************************************************************)
EXTENDS Integers, Sequences, FiniteSets, TLC

\* ------------------------------------------------------------ bounds
\* longest container (number of packets before av_read_frame fails)
MaxPackets == 3
\* frame rates r_frame_rate = num/2 with num in 1..MaxFpsNum (0.5, 1, 1.5, 2, ...)
MaxFpsNum == 4
\* how far past the container's length the display counter is followed
MaxOvershoot == 2

\* ------------------------------------------------------------ values
\* one half of a 32-bit unsigned int (two 16-bit halves <<hi, lo>>)
Word == 65536

\* (unsigned int)x for a 32-bit int x
U32(x) == << (x \div Word) % Word, x % Word >>

\* a < b on unsigned int
ULess(a, b) == a[1] < b[1] \/ (a[1] = b[1] /\ a[2] < b[2])

\* content of a Texture after create() and before any update()
Blank == -1

\* packet.stream_index of a blank packet (AVPacket packet = {}, av_packet_unref,
\* and the packet av_read_frame leaves on failure)
BlankIndex == 0

\* packets of the container: a video packet that decodes to a frame, a video
\* packet for which send/receive fails, a packet of another stream
PacketKinds == {"v_ok", "v_bad", "other"}

RECURSIVE SeqsUpTo(_, _)
SeqsUpTo(S, n) ==
    IF n = 0 THEN { <<>> }
    ELSE LET shorter == SeqsUpTo(S, n - 1)
         IN  shorter \cup { Append(s, x) : s \in { t \in shorter : Len(t) = n - 1 }, x \in S }

Streams == SeqsUpTo(PacketKinds, MaxPackets)

FrameRates == { << num, 2 >> : num \in 1 .. MaxFpsNum }

\* milliseconds in a second (line 154)
MsPerSecond == 1000

Min(a, b) == IF a <= b THEN a ELSE b

VARIABLES
    mpc,              \* position of main
    wpc,              \* position of GetVideoFrameThread
    stream,           \* the container's packets (input)
    drainFrame,       \* the decoder still holds a frame when it is flushed (input)
    pos,              \* read cursor of pFormatCtx
    setupFail,        \* the setup step that failed, "none" if none
    videoStreamIndex, \* main's videoStreamIndex (unsigned int)
    res,              \* main's res (unsigned int)
    fps,              \* r_frame_rate as <<num, den>>
    bufferSize,       \* param.bufferSize
    buffer,           \* param.buffer: slot -> frame number held
    decoded,          \* param.decoded
    read,             \* param.read
    filled,           \* param.filled
    ended,            \* param.ended
    windowOpen,       \* window.isOpen()
    rdFail,           \* the worker's local read /= 0
    shown,            \* frames displayed so far, in order
    ctxFreed,         \* avformat_free_context(pFormatCtx) has run
    bufFreed,         \* delete[] param.buffer has run
    elapsed,          \* clock.getElapsedTime().asMilliseconds()
    perTick,          \* frames displayed since the last clock.restart()
    sentBlank         \* the blank packet of a failed read went to avcodec_send_packet

vars == << mpc, wpc, stream, drainFrame, pos, setupFail, videoStreamIndex, res,
           fps, bufferSize, buffer, decoded, read, filled, ended, windowOpen,
           rdFail, shown, ctxFreed, bufFreed, elapsed, perTick, sentBlank >>

inputVars  == << stream, drainFrame >>
setupVars  == << setupFail, videoStreamIndex, res, fps, bufferSize >>
sharedVars == << buffer, decoded, read, filled, ended >>
freeVars   == << ctxFreed, bufFreed >>
clockVars  == << elapsed, perTick >>

Init ==
    /\ mpc = "open"
    /\ wpc = "idle"
    /\ stream \in Streams
    /\ drainFrame \in { b \in BOOLEAN : b => \E k \in 1 .. Len(stream) : stream[k] = "v_bad" }
    /\ pos = 0
    /\ setupFail = "none"
    /\ videoStreamIndex = U32(-1)
    /\ res = U32(-1)
    /\ fps = << 2, 2 >>
    /\ bufferSize = 0
    /\ buffer = [i \in {} |-> Blank]
    /\ decoded = 0
    /\ read = 0
    /\ filled = FALSE
    /\ ended = FALSE
    /\ windowOpen = TRUE
    /\ rdFail = FALSE
    /\ shown = << >>
    /\ ctxFreed = FALSE
    /\ bufFreed = FALSE
    /\ elapsed = 0
    /\ perTick = 0
    /\ sentBlank = FALSE

\* the process is running: main has neither returned, thrown nor crashed
Alive == mpc \notin {"exited", "thrown", "crashed"}

\* ------------------------------------------------------------ main: setup

\* (size_t)fps and (unsigned int)fps: the conversion truncates
Truncate(q) == q[1] \div q[2]

\* results of avcodec_open2: 0, or a negative AVERROR
OpenResults == {0, -22}

\* line 84-85
OpenInput ==
    /\ mpc = "open"
    /\ \E ok \in BOOLEAN :
          IF ok THEN mpc' = "find_info" /\ UNCHANGED setupFail
                ELSE mpc' = "thrown" /\ setupFail' = "open"
    /\ UNCHANGED << wpc, inputVars, pos, videoStreamIndex, res, fps, bufferSize,
                    sharedVars, windowOpen, rdFail, shown, freeVars, clockVars, sentBlank >>

\* line 86-87
FindStreamInfo ==
    /\ mpc = "find_info"
    /\ \E ok \in BOOLEAN :
          IF ok THEN mpc' = "find_streams" /\ UNCHANGED setupFail
                ELSE mpc' = "thrown" /\ setupFail' = "stream_info"
    /\ UNCHANGED << wpc, inputVars, pos, videoStreamIndex, res, fps, bufferSize,
                    sharedVars, windowOpen, rdFail, shown, freeVars, clockVars, sentBlank >>

\* line 89-114: the loop over the container's streams (a video stream at index
\* 0 or 1, or none)
FindStreams ==
    /\ mpc = "find_streams"
    /\ \/ \* no stream is a video stream: videoStreamIndex and res keep (unsigned)-1
          /\ setupFail' = "no_video"
          /\ mpc' = "get_fps"
          /\ UNCHANGED << videoStreamIndex, res >>
       \/ \* avcodec_find_decoder returns NULL (line 100-102)
          /\ \E i \in {0, 1} : videoStreamIndex' = U32(i)
          /\ setupFail' = "codec"
          /\ mpc' = "thrown"
          /\ UNCHANGED res
       \/ \* the decoder is found and avcodec_open2 returns r (line 104-112)
          \E i \in {0, 1}, r \in OpenResults :
             /\ videoStreamIndex' = U32(i)
             /\ res' = U32(r)
             /\ setupFail' = IF r < 0 THEN "decoder_open" ELSE "none"
             /\ mpc' = "get_fps"
    /\ UNCHANGED << wpc, inputVars, pos, fps, bufferSize, sharedVars, windowOpen,
                    rdFail, shown, freeVars, clockVars, sentBlank >>

\* line 116: streams[videoStreamIndex] is read before videoStreamIndex is checked;
\* with videoStreamIndex = (unsigned)-1 the read is out of bounds: the process
\* crashes or goes on with whatever value was read
GetFps ==
    /\ mpc = "get_fps"
    /\ \/ /\ \E q \in FrameRates : fps' = q
          /\ mpc' = "check_vsi"
       \/ /\ videoStreamIndex = U32(-1)
          /\ mpc' = "crashed"
          /\ UNCHANGED fps
    /\ UNCHANGED << wpc, inputVars, pos, setupFail, videoStreamIndex, res, bufferSize,
                    sharedVars, windowOpen, rdFail, shown, freeVars, clockVars, sentBlank >>

\* line 118-120
CheckVideoStream ==
    /\ mpc = "check_vsi"
    /\ mpc' = IF videoStreamIndex = U32(-1) THEN "thrown" ELSE "check_res"
    /\ UNCHANGED << wpc, inputVars, pos, setupVars, sharedVars, windowOpen, rdFail,
                    shown, freeVars, clockVars, sentBlank >>

\* line 121-123: res is an unsigned int
CheckDecoder ==
    /\ mpc = "check_res"
    /\ mpc' = IF ULess(res, U32(0)) THEN "thrown" ELSE "alloc"
    /\ UNCHANGED << wpc, inputVars, pos, setupVars, sharedVars, windowOpen, rdFail,
                    shown, freeVars, clockVars, sentBlank >>

\* line 125-128: new[] throws when the allocation fails
AllocBuffer ==
    /\ mpc = "alloc"
    /\ \E ok \in BOOLEAN :
          IF ok THEN /\ mpc' = "params"
                     /\ buffer' = [i \in 0 .. (Truncate(fps) - 1) |-> Blank]
                     /\ UNCHANGED setupFail
                ELSE /\ mpc' = "thrown"
                     /\ setupFail' = "alloc"
                     /\ UNCHANGED buffer
    /\ UNCHANGED << wpc, inputVars, pos, videoStreamIndex, res, fps, bufferSize,
                    decoded, read, filled, ended, windowOpen, rdFail, shown, freeVars, clockVars, sentBlank >>

\* line 130-148
SetParams ==
    /\ mpc = "params"
    /\ bufferSize' = Truncate(fps)
    /\ filled' = FALSE
    /\ ended' = FALSE
    /\ mpc' = "begin"
    /\ UNCHANGED << wpc, inputVars, pos, setupFail, videoStreamIndex, res, fps,
                    buffer, decoded, read, windowOpen, rdFail, shown, freeVars, clockVars, sentBlank >>

\* line 150
BeginThread ==
    /\ mpc = "begin"
    /\ mpc' = "wait_filled"
    /\ wpc' = "create"
    /\ UNCHANGED << inputVars, pos, setupVars, sharedVars, windowOpen, rdFail, shown,
                    freeVars, clockVars, sentBlank >>

\* ------------------------------------------------------------ Decode Worker

\* param.videoStreamIndex: VideoContext param = {} zeroes it and main never
\* assigns it (line 135-144)
ParamVideoStreamIndex == 0

\* packet.stream_index of a packet of the container: video packets carry the
\* index main found, the other stream has the other index
StreamIndexOf(kind) ==
    IF kind = "other" THEN (IF videoStreamIndex = U32(0) THEN 1 ELSE 0)
                      ELSE videoStreamIndex[2]

\* packet.stream_index == pVideoCtx->videoStreamIndex (line 27, 50)
IsSelected(index) == U32(index) = U32(ParamVideoStreamIndex)

\* sent == 0 && recieved == 0 for a packet of the container (line 28-31, 51-54):
\* the decoder was opened and the packet is a video packet that yields a frame
DecodesToFrame(kind) == res = U32(0) /\ kind = "v_ok"

\* sent == 0 && recieved == 0 for the blank packet, which flushes the decoder:
\* a frame comes out when the decoder kept one back from an earlier video packet
FlushYieldsFrame ==
    /\ res = U32(0)
    /\ drainFrame
    /\ \E k \in 1 .. Len(stream) :
          stream[k] = "v_bad" /\ IsSelected(StreamIndexOf(stream[k]))

\* the room test with <= for <
HasRoomOffByOne(d, r, size) == ~ULess(U32(size), U32(d - r))

\* decoded - read < bufferSize (line 47), on unsigned int
HasRoom(d, r, size) == ULess(U32(d - r), U32(size))

\* decoded < bufferSize (line 23)
NotPrimed(d, size) == ULess(U32(d), U32(size))

\* slot written in the streaming phase (line 59)
StreamSlot(d, size) == d % size

\* line 9-21
CreateTextures ==
    /\ Alive /\ wpc = "create"
    /\ buffer' = [i \in DOMAIN buffer |-> Blank]
    /\ wpc' = "p_test"
    /\ UNCHANGED << mpc, inputVars, pos, setupVars, decoded, read, filled, ended,
                    windowOpen, rdFail, shown, freeVars, clockVars, sentBlank >>

\* line 23-24
PrimeTest ==
    /\ Alive /\ wpc = "p_test"
    /\ wpc' = IF NotPrimed(decoded, bufferSize) /\ ~rdFail /\ windowOpen
              THEN "p_fetch" ELSE "set_filled"
    /\ UNCHANGED << mpc, inputVars, pos, setupVars, sharedVars, windowOpen, rdFail,
                    shown, freeVars, clockVars, sentBlank >>

\* av_read_frame, the stream test, send/receive, sws_scale and, when no frame
\* came out, av_packet_unref (line 25-34 and 41, 48-57 and 65).  After
\* avformat_free_context the read uses freed memory: it crashes, or behaves
\* as if nothing had been freed.
Fetch(onFrame, onNone) ==
    \/ /\ pos < Len(stream)
       /\ pos' = pos + 1
       /\ wpc' = IF IsSelected(StreamIndexOf(stream[pos + 1]))
                    /\ DecodesToFrame(stream[pos + 1])
                 THEN onFrame ELSE onNone
       /\ UNCHANGED << mpc, rdFail, sentBlank >>
    \/ /\ pos = Len(stream)
       /\ rdFail' = TRUE
       /\ sentBlank' = IsSelected(BlankIndex)
       /\ wpc' = IF IsSelected(BlankIndex) /\ FlushYieldsFrame
                 THEN onFrame ELSE onNone
       /\ UNCHANGED << mpc, pos >>
    \/ /\ ctxFreed
       /\ mpc' = "crashed"
       /\ UNCHANGED << wpc, pos, rdFail, sentBlank >>

\* buffer[slot].update(pFrameRGB->data[0]) (line 36, 59-60): the slot now holds
\* frame number decoded.  After delete[] the write goes to freed memory: it
\* crashes, or is lost.
Update(slot, next) ==
    \/ /\ ~bufFreed
       /\ buffer' = [buffer EXCEPT ![slot] = decoded]
       /\ wpc' = next
       /\ UNCHANGED mpc
    \/ /\ bufFreed
       /\ wpc' = next
       /\ UNCHANGED << mpc, buffer >>
    \/ /\ bufFreed
       /\ mpc' = "crashed"
       /\ UNCHANGED << wpc, buffer >>

\* line 25-34, 41
PrimeFetch ==
    /\ Alive /\ wpc = "p_fetch"
    /\ Fetch("p_update", "p_test")
    /\ UNCHANGED << inputVars, setupVars, sharedVars, windowOpen, shown, freeVars,
                    clockVars >>

\* line 36
PrimeUpdate ==
    /\ Alive /\ wpc = "p_update"
    /\ Update(decoded, "p_inc")
    /\ UNCHANGED << inputVars, pos, setupVars, decoded, read, filled, ended,
                    windowOpen, rdFail, shown, freeVars, clockVars, sentBlank >>

\* line 37, 41
PrimeInc ==
    /\ Alive /\ wpc = "p_inc"
    /\ decoded' = decoded + 1
    /\ wpc' = "p_test"
    /\ UNCHANGED << mpc, inputVars, pos, setupVars, buffer, read, filled, ended,
                    windowOpen, rdFail, shown, freeVars, clockVars, sentBlank >>

\* line 44 setting both flags
SetFilledAndEnded ==
    /\ Alive /\ wpc = "set_filled"
    /\ filled' = TRUE
    /\ ended' = TRUE
    /\ wpc' = "s_test"
    /\ UNCHANGED << mpc, inputVars, pos, setupVars, buffer, decoded, read,
                    windowOpen, rdFail, shown, freeVars, clockVars, sentBlank >>

\* line 44
SetFilled ==
    /\ Alive /\ wpc = "set_filled"
    /\ filled' = TRUE
    /\ wpc' = "s_test"
    /\ UNCHANGED << mpc, inputVars, pos, setupVars, buffer, decoded, read, ended,
                    windowOpen, rdFail, shown, freeVars, clockVars, sentBlank >>

\* line 46 without the test of read
StreamTestRetries ==
    /\ Alive /\ wpc = "s_test"
    /\ wpc' = IF windowOpen THEN "s_room" ELSE "set_ended"
    /\ UNCHANGED << mpc, inputVars, pos, setupVars, sharedVars, windowOpen, rdFail,
                    shown, freeVars, clockVars, sentBlank >>

\* line 46
StreamTest ==
    /\ Alive /\ wpc = "s_test"
    /\ wpc' = IF ~rdFail /\ windowOpen THEN "s_room" ELSE "set_ended"
    /\ UNCHANGED << mpc, inputVars, pos, setupVars, sharedVars, windowOpen, rdFail,
                    shown, freeVars, clockVars, sentBlank >>

\* line 47
StreamRoom ==
    /\ Alive /\ wpc = "s_room"
    /\ wpc' = IF HasRoom(decoded, read, bufferSize) THEN "s_fetch" ELSE "s_test"
    /\ UNCHANGED << mpc, inputVars, pos, setupVars, sharedVars, windowOpen, rdFail,
                    shown, freeVars, clockVars, sentBlank >>

\* line 48-57, 65
StreamFetch ==
    /\ Alive /\ wpc = "s_fetch"
    /\ Fetch("s_update", "s_test")
    /\ UNCHANGED << inputVars, setupVars, sharedVars, windowOpen, shown, freeVars,
                    clockVars >>

\* line 59-60: with bufferSize = 0 the remainder is a division by zero
StreamUpdate ==
    /\ Alive /\ wpc = "s_update"
    /\ IF bufferSize = 0
       THEN mpc' = "crashed" /\ UNCHANGED << wpc, buffer >>
       ELSE Update(StreamSlot(decoded, bufferSize), "s_inc")
    /\ UNCHANGED << inputVars, pos, setupVars, decoded, read, filled, ended,
                    windowOpen, rdFail, shown, freeVars, clockVars, sentBlank >>

\* line 61, 65
StreamInc ==
    /\ Alive /\ wpc = "s_inc"
    /\ decoded' = decoded + 1
    /\ wpc' = "s_test"
    /\ UNCHANGED << mpc, inputVars, pos, setupVars, buffer, read, filled, ended,
                    windowOpen, rdFail, shown, freeVars, clockVars, sentBlank >>

\* line 69-73
SetEnded ==
    /\ Alive /\ wpc = "set_ended"
    /\ ended' = TRUE
    /\ wpc' = "done"
    /\ UNCHANGED << mpc, inputVars, pos, setupVars, buffer, decoded, read, filled,
                    windowOpen, rdFail, shown, freeVars, clockVars, sentBlank >>

GetVideoFrameThread ==
    \/ CreateTextures \/ PrimeTest \/ PrimeFetch \/ PrimeUpdate \/ PrimeInc
    \/ SetFilled \/ StreamTest \/ StreamRoom \/ StreamFetch \/ StreamUpdate
    \/ StreamInc \/ SetEnded

\* ------------------------------------------------------------ Presentation Loop

\* the period test on a period cut to whole milliseconds
PeriodElapsedWholeMs(ms, q) == ms >= (MsPerSecond * q[2]) \div q[1]

\* getElapsedTime().asMilliseconds() >= (1000 / fps) (line 154), the integer
\* reading against the double 1000 / fps
PeriodElapsed(ms, q) == ms * q[1] >= MsPerSecond * q[2]

\* the least whole number of milliseconds that passes the test for frame rate q
PeriodCeil(q) == (MsPerSecond * q[2] + q[1] - 1) \div q[1]

\* the readings of the clock that the test of frame rate q tells apart: the
\* last one that fails it, the first one that passes it, and a late one
ClockReadings(q) == { PeriodCeil(q) - 1, PeriodCeil(q), 2 * PeriodCeil(q) }

\* time passes while main spins at line 153-154: the clock shows a later
\* reading
Advance ==
    /\ mpc = "tick"
    /\ \E ms \in ClockReadings(fps) : ms > elapsed /\ elapsed' = ms
    /\ UNCHANGED << mpc, wpc, inputVars, pos, setupVars, sharedVars, windowOpen,
                    rdFail, shown, freeVars, perTick, sentBlank >>

\* the wait of line 151 left out
WaitFilledNoWait ==
    /\ mpc = "wait_filled"
    /\ mpc' = "tick"
    /\ UNCHANGED << wpc, inputVars, pos, setupVars, sharedVars, windowOpen, rdFail,
                    shown, freeVars, clockVars, sentBlank >>

\* line 151: the wait ends once filled is seen; the clock, started at line
\* 148, has run for the time of the wait
WaitFilled ==
    /\ mpc = "wait_filled"
    /\ filled
    /\ mpc' = "tick"
    /\ elapsed' \in {0} \cup ClockReadings(fps)
    /\ UNCHANGED << wpc, inputVars, pos, setupVars, sharedVars, windowOpen, rdFail,
                    shown, freeVars, perTick, sentBlank >>

\* line 154-159: the pacing period has elapsed; the clock is restarted, the
\* pending events are polled and a Closed event closes the window
Tick ==
    /\ mpc = "tick"
    /\ PeriodElapsed(elapsed, fps)
    /\ elapsed' = 0
    /\ perTick' = 0
    /\ \E closed \in BOOLEAN : windowOpen' = (windowOpen /\ ~closed)
    /\ mpc' = "check"
    /\ UNCHANGED << wpc, inputVars, pos, setupVars, sharedVars, rdFail, shown,
                    freeVars, sentBlank >>

\* line 161, !window.isOpen() || param.read == param.decoded && ...: the window
\* and the two counters are read; param.ended is read only when they are equal
CheckCounters ==
    /\ mpc = "check"
    /\ mpc' = IF ~windowOpen THEN "free_ctx"
              ELSE IF read = decoded THEN "check_ended"
              ELSE "display"
    /\ UNCHANGED << wpc, inputVars, pos, setupVars, sharedVars, windowOpen, rdFail,
                    shown, freeVars, clockVars, sentBlank >>

\* line 161-163, ... && param.ended
CheckEnded ==
    /\ mpc = "check_ended"
    /\ mpc' = IF ended THEN "free_ctx" ELSE "display"
    /\ UNCHANGED << wpc, inputVars, pos, setupVars, sharedVars, windowOpen, rdFail,
                    shown, freeVars, clockVars, sentBlank >>

\* line 165-166: the slot read % bufferSize is put on the screen; with
\* bufferSize = 0 the remainder is a division by zero
Display ==
    /\ mpc = "display"
    /\ read < Len(stream) + MaxOvershoot
    /\ IF bufferSize = 0
       THEN mpc' = "crashed" /\ UNCHANGED << shown, perTick >>
       ELSE /\ mpc' = "inc"
            /\ shown' = Append(shown, buffer[read % bufferSize])
            /\ perTick' = perTick + 1
    /\ UNCHANGED << wpc, inputVars, pos, setupVars, sharedVars, windowOpen, rdFail,
                    freeVars, elapsed, sentBlank >>

\* line 168 counting twice
IncReadTwice ==
    /\ mpc = "inc"
    /\ read' = read + 2
    /\ mpc' = "tick"
    /\ UNCHANGED << wpc, inputVars, pos, setupVars, buffer, decoded, filled, ended,
                    windowOpen, rdFail, shown, freeVars, clockVars, sentBlank >>

\* line 168
IncRead ==
    /\ mpc = "inc"
    /\ read' = read + 1
    /\ mpc' = "tick"
    /\ UNCHANGED << wpc, inputVars, pos, setupVars, buffer, decoded, filled, ended,
                    windowOpen, rdFail, shown, freeVars, clockVars, sentBlank >>

\* line 172
FreeContext ==
    /\ mpc = "free_ctx"
    /\ ctxFreed' = TRUE
    /\ mpc' = "free_buf"
    /\ UNCHANGED << wpc, inputVars, pos, setupVars, sharedVars, windowOpen, rdFail,
                    shown, bufFreed, clockVars, sentBlank >>

\* line 173
FreeBuffer ==
    /\ mpc = "free_buf"
    /\ bufFreed' = TRUE
    /\ mpc' = "return"
    /\ UNCHANGED << wpc, inputVars, pos, setupVars, sharedVars, windowOpen, rdFail,
                    shown, ctxFreed, clockVars, sentBlank >>

\* line 174-175: returning from main ends the process and with it the worker
Return ==
    /\ mpc = "return"
    /\ mpc' = "exited"
    /\ UNCHANGED << wpc, inputVars, pos, setupVars, sharedVars, windowOpen, rdFail,
                    shown, freeVars, clockVars, sentBlank >>

main ==
    \/ OpenInput \/ FindStreamInfo \/ FindStreams \/ GetFps \/ CheckVideoStream
    \/ CheckDecoder \/ AllocBuffer \/ SetParams \/ BeginThread \/ WaitFilled
    \/ Tick \/ CheckCounters \/ CheckEnded \/ Display \/ IncRead
    \/ FreeContext \/ FreeBuffer \/ Return

Next == main \/ GetVideoFrameThread \/ Advance

Spec == Init /\ [][Next]_vars

\* both threads are scheduled as long as the process runs, and the clock
\* reaches the reading main waits for
FairSpec ==
    /\ Spec
    /\ WF_vars(main)
    /\ WF_vars(GetVideoFrameThread)
    /\ WF_vars(Advance /\ PeriodElapsed(elapsed', fps))

\* ------------------------------------------------------------ claims

\* the pipeline has been entered: the worker has been started
Started == wpc /= "idle"

\* the pipeline runs as intended: setup succeeded, the worker selects the
\* stream main found, and the ring has at least one slot
Nominal ==
    /\ Started
    /\ setupFail = "none"
    /\ videoStreamIndex = U32(ParamVideoStreamIndex)
    /\ bufferSize >= 1

\* number of frames the container can yield: the video packets that decode,
\* and the frame a flush brings out when the decoder kept one back
RECURSIVE CountKind(_, _)
CountKind(s, kind) ==
    IF s = << >> THEN 0
    ELSE (IF Head(s) = kind THEN 1 ELSE 0) + CountKind(Tail(s), kind)

totalFramesAvailable ==
    CountKind(stream, "v_ok")
      + (IF drainFrame /\ CountKind(stream, "v_bad") > 0 THEN 1 ELSE 0)

\* the same, on a container that holds at least one frame
NominalStream == Nominal /\ totalFramesAvailable >= 1

\* the frame numbers 0 .. n-1 in order
FirstFrames(n) == [k \in 1 .. n |-> k - 1]

\* C1: in every reachable state of the two threads,
\* read <= decoded <= read + bufferSize.
C1_CounterInvariant ==
    NominalStream => (read <= decoded /\ decoded <= read + bufferSize)

\* C2: a step that writes a slot leaves the slot of every frame number i with
\* read <= i < decoded as it was: no pending frame is overwritten.
C2_NoOverwrite ==
    [][ buffer' /= buffer /\ Started =>
          \A i \in read .. (decoded - 1) :
             buffer'[i % bufferSize] = buffer[i % bufferSize] ]_vars

\* C2 witness: in the streaming phase the worker has just written, over an
\* older frame, into a ring whose other frames are still pending
C2_Witness ==
    /\ wpc = "s_inc"
    /\ bufferSize >= 2
    /\ decoded >= bufferSize
    /\ read < decoded
    /\ buffer[StreamSlot(decoded, bufferSize)] = decoded

\* C3: the n-th display shows frame number n - 1, the n-th frame committed.
C3_DisplayOrder ==
    NominalStream => \A n \in 1 .. Len(shown) : shown[n] = n - 1

\* C4: when the Presentation Loop has just left its loop, the window is closed
\* or (ended and read = decoded).
C4_ExitCondition ==
    Nominal /\ mpc = "free_ctx" => (~windowOpen \/ (ended /\ read = decoded))

\* C5: a run on a stream of N frames whose window is never closed ends with
\* decoded = N, ended, and frames 0 .. N-1 displayed in order, read = N.
C5_ConsumesAll ==
    Nominal /\ windowOpen /\ mpc \in {"free_ctx", "free_buf", "return", "exited"} =>
        /\ decoded = totalFramesAvailable
        /\ ended
        /\ read = totalFramesAvailable
        /\ shown = FirstFrames(totalFramesAvailable)

\* C6: the step that completes priming (sets filled) leaves
\* decoded = min(bufferSize, totalFramesAvailable) with frame n in slot n.
C6_Priming ==
    [][ ~filled /\ filled' /\ setupFail = "none" =>
          /\ decoded' = Min(bufferSize, totalFramesAvailable)
          /\ \A n \in 0 .. (decoded' - 1) : buffer'[n] = n ]_vars

\* C7: every display happens in a state where read < decoded.
C7_NoUnproducedDisplay ==
    NominalStream /\ mpc = "display" => read < decoded

\* C8: when the worker has run a stream of P video packets, K of which fail to
\* decode, to its end, decoded = P - K.
C8_SkipCount ==
    Nominal /\ windowOpen /\ wpc = "done" =>
        decoded = (CountKind(stream, "v_ok") + CountKind(stream, "v_bad"))
                    - CountKind(stream, "v_bad")

\* C9: after a setup failure the pipeline is not entered: the worker is never
\* started.
C9_SetupFatal ==
    setupFail /= "none" => ~Started

\* C10: when the process has ended after the window was closed, the worker had
\* reached its terminal state, with filled and ended both true.
C10_WorkerTerminates ==
    Nominal /\ mpc = "exited" /\ ~windowOpen => (wpc = "done" /\ filled /\ ended)

\* positions of the worker after its priming loop
AfterPriming == {"s_test", "s_room", "s_fetch", "s_update", "s_inc", "set_ended", "done"}

\* C11: no display and no increment of read happens while filled is false, and
\* the worker is past line 44 only with filled set.
C11_DisplayAfterFilled ==
    /\ [](wpc \in AfterPriming => filled)
    /\ [][ (shown' /= shown \/ read' /= read) => filled ]_vars

\* C11 witness: the first frame has been displayed after a priming loop that
\* ended at the end of the container, before the ring was full
C11_Witness ==
    /\ Nominal
    /\ Len(shown) = 1
    /\ rdFail
    /\ decoded < bufferSize

\* the frame rate rounded to the nearest integer
RoundNearest(q) == (2 * q[1] + q[2]) \div (2 * q[2])

\* C13: the ring's capacity (bufferSize and the number of slots) is the frame
\* rate rounded to the nearest integer.
C13_CapacityRounded ==
    Started /\ setupFail = "none" =>
        /\ bufferSize = RoundNearest(fps)
        /\ DOMAIN buffer = 0 .. (bufferSize - 1)

\* C16: once ended is true it stays true, decoded and the slots no longer
\* change, and ended implies filled.
C16_EndedIsFinal ==
    /\ [](ended => filled)
    /\ [][ ended => (ended' /\ decoded' = decoded /\ buffer' = buffer) ]_vars

\* C16 witness: the worker has ended with frames still to be displayed
C16_Witness ==
    /\ Nominal
    /\ ended
    /\ wpc = "done"
    /\ read < decoded
    /\ mpc = "display"

\* C17: in every state where filled is true, decoded >= 1.
C17_PrimedFrame ==
    Nominal /\ filled => decoded >= 1

\* C18: a worker step leaves read unchanged and adds at most 1 to decoded, for
\* a frame just written to its slot; a step of main leaves decoded, filled and
\* ended unchanged and adds at most 1 to read, for a frame just displayed.
C18_SingleWriter ==
    /\ [][ GetVideoFrameThread =>
             /\ read' = read
             /\ \/ decoded' = decoded
                \/ /\ decoded' = decoded + 1
                   /\ wpc \in {"p_inc", "s_inc"}
                   /\ \/ bufFreed
                      \/ buffer[IF wpc = "p_inc" THEN decoded
                                ELSE StreamSlot(decoded, bufferSize)] = decoded ]_vars
    /\ [][ main =>
             /\ decoded' = decoded /\ filled' = filled /\ ended' = ended
             /\ \/ read' = read
                \/ read' = read + 1 /\ Len(shown) = read' ]_vars

\* C18 witness: both counters have advanced, the worker past a full ring
C18_Witness ==
    /\ Nominal
    /\ decoded > bufferSize
    /\ read >= 2
    /\ mpc = "tick"
    /\ wpc = "s_test"

\* C19: the container context and the slots are freed only after the worker
\* has reached its terminal state.
C19_FreeAfterWorker ==
    Nominal /\ (ctxFreed \/ bufFreed) => (ended /\ wpc = "done")

\* a slot's update() runs from the worker's Update step to its Inc step, a
\* slot's display from main's Display step to its IncRead step
WritingSlot == IF wpc = "p_inc" THEN decoded ELSE StreamSlot(decoded, bufferSize)
Writing == wpc \in {"p_inc", "s_inc"}
Displaying == mpc = "inc"
DisplayingSlot == read % bufferSize

\* C14: the worker's write of a slot never overlaps the display of the same
\* slot.
C14_NoOverlap ==
    Nominal => ~(Writing /\ Displaying /\ WritingSlot = DisplayingSlot)

\* the worker's positions in the order it passes them once a read has failed
AfterFailedRead ==
    << "p_update", "p_inc", "p_test", "set_filled",
       "s_update", "s_inc", "s_test", "set_ended", "done" >>

\* place of a position in that order, 0 for a position outside it
RankAfterFailedRead(pc) ==
    IF \E k \in DOMAIN AfterFailedRead : AfterFailedRead[k] = pc
    THEN CHOOSE k \in DOMAIN AfterFailedRead : AfterFailedRead[k] = pc
    ELSE 0

C15_EndsAfterFailedRead == rdFail ~> (ended \/ ~Alive)

C12_Pacing ==
    /\ [](perTick <= 1)
    /\ [][ mpc = "tick" /\ mpc' = "check" =>
             elapsed * fps[1] >= MsPerSecond * fps[2] ]_vars

\* C12 witness: a frame has been shown, and the clock stands exactly at the
\* first reading that lets the next pass begin
C12_Witness ==
    /\ Nominal
    /\ Len(shown) >= 1
    /\ perTick = 1
    /\ mpc = "tick"
    /\ elapsed = PeriodCeil(fps)
    /\ (elapsed - 1) * fps[1] < MsPerSecond * fps[2]

\* C20: in the iteration whose read failed nothing is handed to the decoder,
\* no slot is written and decoded is not incremented.
C20_FailedReadIdle ==
    Nominal /\ rdFail =>
        /\ ~sentBlank
        /\ wpc \notin {"p_update", "p_inc", "s_update", "s_inc"}

====
